---- MODULE Spec2Model ----
(***************************************************************************)
(* Model of the storefront's route layer:                                  *)
(*   - the product route's loader and its client-side URL synchronization  *)
(*     (src/unnamed/part_000),                                             *)
(*   - the home route's loader                                             *)
(*     (src/my-hydrogen-storefront/app/routes/home.tsx).                   *)
(* One request is followed from the router's call of the loader to the     *)
(* response; the two remote reads a loader issues settle in either order.  *)
(* Strings the code slices or lower-cases are sequences of characters.     *)
(***************************************************************************)
EXTENDS Integers, Sequences, FiniteSets, TLC

VARIABLES
    route,        \* which route the router matched: "product" or "home"
    params,       \* route parameters: productHandle, locale
    request,      \* the incoming request: its query string
    pathPrefix,   \* context.storefront.i18n.pathPrefix
    redirectToFirstVariant, \* COMBINED_LISTINGS_CONFIGS.redirectToFirstVariant
    catalogStub,  \* what storefront.query will answer: {shop, product}
    contentStub,  \* what weaverse.loadPage will answer
    pc,           \* the loader's position: "start", "await", "awaitRecommended", "done"
    fetch,        \* Promise.all's inputs, by position: "none", "pending", "settled"
    results,      \* Promise.all's result array, by position
    order,        \* the positions in the order they settled
    contentReq,   \* the argument weaverse.loadPage was called with
    queryReq,     \* the variables storefront.query was called with
    seo,          \* the SEO payload once computed
    recommended,  \* the recommended-products promise: "none", "pending", "resolved", "rejected"
    outcome,      \* what the loader threw or returned
    search,       \* window.location.search
    pathname,     \* window.location.pathname
    historyLen,   \* window.history.length
    selectedVariant, \* useOptimisticVariant's value
    combinedListing, \* isCombinedListing(product)
    effectPending,   \* React has the effect scheduled (mount, or a dependency changed)
    replaced,     \* the last run of the effect called history.replaceState
    runs,         \* runs of the effect since the URL or the variant last changed otherwise
    threw         \* the last run of the effect ended in an exception

serverVars == <<route, params, request, pathPrefix, redirectToFirstVariant,
                catalogStub, contentStub, pc, fetch, results, order, contentReq,
                queryReq, seo, recommended, outcome>>
clientVars == <<search, pathname, historyLen, selectedVariant, combinedListing,
                effectPending, replaced, runs, threw>>
vars == <<serverVars, clientVars>>

(***************************************************************************)
(* Bounds                                                                  *)
(***************************************************************************)
\* The most name=value segments a starting query string has.
MaxParams == 2
\* The effect's runs are counted up to this many.
MaxRuns == 2
\* window.history.length when the page is shown.
InitialHistoryLen == 1

(***************************************************************************)
(* Values                                                                  *)
(***************************************************************************)
\* An optional string: undefined, or a sequence of characters.
Undefined == [some |-> FALSE, v |-> <<>>]
Some(s) == [some |-> TRUE, v |-> s]

\* JavaScript truthiness of an optional string: undefined and "" are falsy.
Truthy(o) == o.some /\ o.v # <<>>

NullProduct == [exists |-> FALSE, id |-> "", handle |-> "", combined |-> FALSE,
                firstVariantHandle |-> ""]
NoShop == [present |-> FALSE, name |-> "", primaryDomain |-> ""]
TheShop == [present |-> TRUE, name |-> "Tastee", primaryDomain |-> "https://tastee.example"]
NoPage == "null"
EmptyPage == "empty"
NoSeo == <<"none">>

\* A slot of Promise.all's result array that has not been filled.
Unsettled == [shop |-> NoShop, product |-> NullProduct, page |-> NoPage]

NoOutcome == [kind |-> "none", status |-> 0, policy |-> "", location |-> <<>>,
              payload |-> <<>>]

(***************************************************************************)
(* Product route: the helpers the loader calls                             *)
(***************************************************************************)
\* getSelectedProductOptions(request): the option pairs of the request's query.
getSelectedProductOptions(req) ==
    CASE req.search = "" -> <<>>
      [] req.search = "?Size=Large" -> <<[name |-> "Size", value |-> "Large"]>>
      [] req.search = "?ref=abc" -> <<[name |-> "ref", value |-> "abc"]>>

\* isCombinedListing(product): the product is a parent grouping of products.
isCombinedListing(product) == product.combined

\* The value a redirect helper leaves when it does not throw.
NoThrow == NoOutcome

RedirectTo(policy, handle, req) ==
    [kind |-> "redirect", status |-> 302, policy |-> policy,
     location |-> <<handle, req.search>>, payload |-> <<>>]

\* redirectIfHandleIsLocalized(request, {handle, data}): throws a redirect to the
\* product's canonical handle, with the request's query, when the requested
\* handle is not the canonical one.
redirectIfHandleIsLocalized(req, handle, data) ==
    IF handle # data.handle
    THEN RedirectTo("localized", data.handle, req)
    ELSE NoThrow

\* redirectIfCombinedListing(request, product): throws a redirect to the first
\* variant's product when the product is a combined listing.
redirectIfCombinedListing(req, product) ==
    IF isCombinedListing(product)
    THEN RedirectTo("combined", product.firstVariantHandle, req)
    ELSE NoThrow

\* seoPayload.product({product, url}): a pure function of the product and the URL.
seoPayloadProduct(product, req) == <<"product-seo", product.id, req.search>>

\* seoPayload.home(): a constant.
seoPayloadHome == <<"home-seo">>

\* validateWeaverseData(weaverseData): TRUE when it throws (the content is absent).
validateWeaverseDataThrows(weaverseData) == weaverseData \in {NoPage, EmptyPage}

(***************************************************************************)
(* Product route: loader                                                   *)
(***************************************************************************)
HandleMissingUndefinedOnly(handle) == ~handle.some

\* invariant(handle, ...): TRUE when the assertion fails.
HandleMissing(handle) == ~handle.some \/ handle.v = ""

ProductMissingNullOnly(product) == ~product.exists

\* if (!product?.id): the lookup missed, or the product carries no id.
ProductMissing(product) == ~product.exists \/ product.id = ""

RedirectChecksCombinedFirst(req, handle, product, flag) ==
    LET combined == IF flag THEN redirectIfCombinedListing(req, product) ELSE NoThrow
        localized == redirectIfHandleIsLocalized(req, handle, product)
    IN  IF combined # NoThrow THEN combined ELSE localized

RedirectChecksIgnoringFlag(req, handle, product, flag) ==
    LET localized == redirectIfHandleIsLocalized(req, handle, product)
        combined == redirectIfCombinedListing(req, product)
    IN  IF localized # NoThrow THEN localized ELSE combined

\* The two redirect helpers in the order the loader calls them; the first one
\* that throws ends the loader, NoThrow when neither does.
RedirectChecks(req, handle, product, flag) ==
    LET localized == redirectIfHandleIsLocalized(req, handle, product)
        combined == IF flag THEN redirectIfCombinedListing(req, product) ELSE NoThrow
    IN  IF localized # NoThrow THEN localized ELSE combined

\* The object the loader returns.
ProductPayload(req, shop, product, weaverseData) ==
    [shop |-> shop,
     product |-> product,
     weaverseData |-> weaverseData,
     storeDomain |-> shop.primaryDomain,
     seo |-> seoPayloadProduct(product, req),
     recommended |-> <<"promise", product.id>>,
     selectedOptions |-> getSelectedProductOptions(req)]

ProductAfterJoinRedirectsFirst(req, handle, res, flag) ==
    LET shop == res[1].shop
        product == res[1].product
        weaverseData == res[2].page
        thrown == RedirectChecks(req, handle, product, flag)
    IN  IF thrown # NoThrow
        THEN thrown
        ELSE IF ProductMissing(product)
        THEN [kind |-> "notfound", status |-> 404, policy |-> "", location |-> <<>>,
              payload |-> <<>>]
        ELSE [kind |-> "payload", status |-> 200, policy |-> "", location |-> <<>>,
              payload |-> ProductPayload(req, shop, product, weaverseData)]

\* The loader from the join to its end: what it throws or returns.
ProductAfterJoin(req, handle, res, flag) ==
    LET shop == res[1].shop
        product == res[1].product
        weaverseData == res[2].page
        thrown == RedirectChecks(req, handle, product, flag)
    IN  IF ProductMissing(product)
        THEN [kind |-> "notfound", status |-> 404, policy |-> "", location |-> <<>>,
              payload |-> <<>>]
        ELSE IF thrown # NoThrow
        THEN thrown
        ELSE [kind |-> "payload", status |-> 200, policy |-> "", location |-> <<>>,
              payload |-> ProductPayload(req, shop, product, weaverseData)]

(***************************************************************************)
(* Home route: loader                                                      *)
(***************************************************************************)
\* String.prototype.toLowerCase, character by character.
LowerChar(c) ==
    CASE c = "F" -> "f"
      [] c = "R" -> "r"
      [] c = "E" -> "e"
      [] c = "N" -> "n"
      [] OTHER -> c

toLowerCase(str) == [i \in 1..Len(str) |-> LowerChar(str[i])]

\* String.prototype.slice(1).
slice1(str) == IF str = <<>> THEN <<>> ELSE Tail(str)

\* const locale = pathPrefix?.slice(1) || "";
ActiveLocale(prefix) == IF prefix.some THEN slice1(prefix.v) ELSE <<>>

PageTypeCaseSensitive(locale, prefix) ==
    IF Truthy(locale) /\ locale.v # ActiveLocale(prefix) THEN "CUSTOM" ELSE "INDEX"

\* let type = "INDEX"; if (params.locale && params.locale.toLowerCase() !== locale)
\* type = "CUSTOM";
PageType(locale, prefix) ==
    IF Truthy(locale) /\ toLowerCase(locale.v) # ActiveLocale(prefix)
    THEN "CUSTOM"
    ELSE "INDEX"

\* The object the loader returns.
HomePayload(shop, weaverseData, seoValue) ==
    [shop |-> shop,
     weaverseData |-> weaverseData,
     analytics |-> [pageType |-> "home"],
     seo |-> seoValue]

HomeAfterJoinNoValidation(res, seoValue) ==
    [kind |-> "payload", status |-> 200, policy |-> "", location |-> <<>>,
     payload |-> HomePayload(res[2].shop, res[1].page, seoValue)]

\* The loader from the join to its end: what it throws or returns.
HomeAfterJoin(res, seoValue) ==
    LET weaverseData == res[1].page
        shop == res[2].shop
    IN  IF validateWeaverseDataThrows(weaverseData)
        THEN [kind |-> "error", status |-> 0, policy |-> "", location |-> <<>>,
              payload |-> <<>>]
        ELSE [kind |-> "payload", status |-> 200, policy |-> "", location |-> <<>>,
              payload |-> HomePayload(shop, weaverseData, seoValue)]

(***************************************************************************)
(* The two reads and their join                                            *)
(***************************************************************************)
\* The position of each read in the array given to Promise.all.
CatalogPos(r) == IF r = "product" THEN 1 ELSE 2
ContentPos(r) == IF r = "product" THEN 2 ELSE 1

\* What the read at position i resolves to.
Response(r, i) ==
    IF i = CatalogPos(r)
    THEN [shop |-> catalogStub.shop,
          product |-> IF r = "product" THEN catalogStub.product ELSE NullProduct,
          page |-> NoPage]
    ELSE [shop |-> NoShop, product |-> NullProduct, page |-> contentStub]

JoinReadyAny(f) == \E i \in DOMAIN f : f[i] = "settled"

\* await Promise.all([...]): the loader resumes when every read has settled.
JoinReady(f) == \A i \in DOMAIN f : f[i] = "settled"

AwaitsRecommendedBlocking == TRUE

\* const recommended = getRecommendedProducts(...): the promise is not awaited.
AwaitsRecommended == FALSE

(***************************************************************************)
(* Product page component: URLSearchParams                                 *)
(* A query string is a sequence of tokens: words, "?", "&", "=", and the   *)
(* escapes "+", "%20" (both a space) and "%3D" (an equals sign).           *)
(***************************************************************************)
RECURSIVE IndexOf(_, _, _)
\* The first index at or after i where tok occurs in str, 0 when there is none.
IndexOf(str, tok, i) ==
    IF i > Len(str) THEN 0
    ELSE IF str[i] = tok THEN i
    ELSE IndexOf(str, tok, i + 1)

RECURSIVE Split(_, _)
\* str.split(sep)
Split(str, sep) ==
    LET k == IndexOf(str, sep, 1)
    IN  IF k = 0 THEN <<str>>
        ELSE <<SubSeq(str, 1, k - 1)>> \o Split(SubSeq(str, k + 1, Len(str)), sep)

\* application/x-www-form-urlencoded decoding of one token.
DecodeToken(t) ==
    CASE t = "+" -> " "
      [] t = "%20" -> " "
      [] t = "%3D" -> "="
      [] OTHER -> t

Decode(str) == [i \in 1..Len(str) |-> DecodeToken(str[i])]

\* application/x-www-form-urlencoded encoding of one token.
EncodeToken(t) ==
    CASE t = " " -> "+"
      [] t = "=" -> "%3D"
      [] OTHER -> t

Encode(str) == [i \in 1..Len(str) |-> EncodeToken(str[i])]

\* One name=value segment of a query string as a pair.
ParsePair(seg) ==
    LET k == IndexOf(seg, "=", 1)
    IN  IF k = 0
        THEN [name |-> Decode(seg), value |-> <<>>]
        ELSE [name |-> Decode(SubSeq(seg, 1, k - 1)),
              value |-> Decode(SubSeq(seg, k + 1, Len(seg)))]

RECURSIVE ParseSegments(_)
ParseSegments(segs) ==
    IF segs = <<>> THEN <<>>
    ELSE IF Head(segs) = <<>> THEN ParseSegments(Tail(segs))
    ELSE <<ParsePair(Head(segs))>> \o ParseSegments(Tail(segs))

\* new URLSearchParams(init): a leading "?" is dropped, empty segments are skipped.
URLSearchParams(init) ==
    LET str == IF init # <<>> /\ Head(init) = "?" THEN Tail(init) ELSE init
    IN  ParseSegments(Split(str, "&"))

RECURSIVE toString(_)
\* URLSearchParams.prototype.toString
toString(list) ==
    IF list = <<>> THEN <<>>
    ELSE LET first == Encode(Head(list).name) \o <<"=">> \o Encode(Head(list).value)
         IN  IF Tail(list) = <<>> THEN first
             ELSE first \o <<"&">> \o toString(Tail(list))

\* URLSearchParams.prototype.get: the first value under the name, or null.
get(list, name) ==
    IF \E i \in 1..Len(list) : list[i].name = name
    THEN LET i == CHOOSE i \in 1..Len(list) :
                      /\ list[i].name = name
                      /\ \A j \in 1..(i - 1) : list[j].name # name
         IN  [null |-> FALSE, v |-> list[i].value]
    ELSE [null |-> TRUE, v |-> <<>>]

setAppending(list, name, value) == Append(list, [name |-> name, value |-> value])

\* URLSearchParams.prototype.set: the first pair under the name takes the value
\* and the other pairs under it are removed; a new pair is appended when there
\* is none.
set(list, name, value) ==
    IF \E i \in 1..Len(list) : list[i].name = name
    THEN LET first == CHOOSE i \in 1..Len(list) :
                          /\ list[i].name = name
                          /\ \A j \in 1..(i - 1) : list[j].name # name
             keep == {i \in 1..Len(list) : list[i].name # name \/ i = first}
             ix == [n \in 1..Cardinality(keep) |->
                        CHOOSE i \in keep : Cardinality({j \in keep : j < i}) = n - 1]
         IN  [n \in 1..Cardinality(keep) |->
                 IF ix[n] = first THEN [name |-> name, value |-> value] ELSE list[ix[n]]]
    ELSE Append(list, [name |-> name, value |-> value])

(***************************************************************************)
(* Product page component: the URL synchronization effect                  *)
(***************************************************************************)
EffectSkipsVariantOnly(variant, combined) == ~variant.present

EffectSkipsCombinedOnly(variant, combined) == combined

\* if (!selectedVariant?.selectedOptions || combinedListing) return;
\* A variant that is null or has no selectedOptions is "not present".
EffectSkips(variant, combined) == ~variant.present \/ combined

\* The loop of lines 104-110: some option's value is not the URL's first value
\* under its name.
OptionDiffers(currentParams, options) ==
    \E i \in 1..Len(options) :
        LET currentValue == get(currentParams, options[i].name)
        IN  currentValue.null \/ currentValue.v # options[i].value

\* let needsUpdate = ...
NeedsUpdateOnlyWhenEmpty(locationSearch, currentParams, options) ==
    locationSearch = <<>>

NeedsUpdate(locationSearch, currentParams, options) ==
    IF locationSearch = <<>> THEN TRUE ELSE OptionDiffers(currentParams, options)

RECURSIVE SetAll(_, _)
SetAll(list, options) ==
    IF options = <<>> THEN list
    ELSE SetAll(set(list, Head(options).name, Head(options).value), Tail(options))

UpdatedParamsFromEmpty(currentParams, options) == SetAll(<<>>, options)

\* const updatedParams = new URLSearchParams(currentParams), then every option set.
UpdatedParams(currentParams, options) == SetAll(currentParams, options)

ShouldReplaceAlways(newSearch, locationSearch) == TRUE

\* if (newSearch !== window.location.search.slice(1))
ShouldReplace(newSearch, locationSearch) == newSearch # slice1(locationSearch)

\* location.search once the URL is `${location.pathname}?${newSearch}`.
SearchOf(newSearch) == IF newSearch = <<>> THEN <<>> ELSE <<"?">> \o newSearch

HistoryAfterPush(len, replace) == IF replace THEN len + 1 ELSE len

\* window.history.length after the run: history.replaceState rewrites the
\* current entry and adds none.
HistoryAfter(len, replace) == len

\* window.location.pathname after the run: the URL given to replaceState starts
\* with location.pathname.
PathAfter(path, replace) == path

\* One run of the effect: whether it calls history.replaceState, location.search
\* after it, and whether it threw (reading selectedOptions of a variant that has
\* none is a TypeError, before replaceState is reached).
SyncEffect(variant, combined, locationSearch) ==
    IF EffectSkips(variant, combined)
    THEN [replace |-> FALSE, search |-> locationSearch, threw |-> FALSE]
    ELSE IF ~variant.present
    THEN [replace |-> FALSE, search |-> locationSearch, threw |-> TRUE]
    ELSE LET currentParams == URLSearchParams(locationSearch)
             options == variant.selectedOptions
             newSearch == toString(UpdatedParams(currentParams, options))
         IN  IF /\ NeedsUpdate(locationSearch, currentParams, options)
                /\ ShouldReplace(newSearch, locationSearch)
             THEN [replace |-> TRUE, search |-> SearchOf(newSearch), threw |-> FALSE]
             ELSE [replace |-> FALSE, search |-> locationSearch, threw |-> FALSE]

(***************************************************************************)
(* Requests and stubbed collaborators                                      *)
(***************************************************************************)
UndefinedHandle == [some |-> FALSE, v |-> ""]
HandleParams ==
    {UndefinedHandle, [some |-> TRUE, v |-> ""], [some |-> TRUE, v |-> "choco-box"],
     [some |-> TRUE, v |-> "boite-choco"]}

LocaleParams ==
    {Undefined, Some(<<>>), Some(<<"f", "r">>), Some(<<"F", "R">>),
     Some(<<"e", "n">>), Some(<<"f", "r", "-", "c", "u", "s", "t", "o", "m">>)}

\* The i18n path prefix is "" for the default locale, else "/" and a lower-case
\* locale.
PathPrefixes == {Undefined, Some(<<>>), Some(<<"/", "f", "r">>), Some(<<"/", "e", "n">>)}

Searches == {"", "?Size=Large", "?ref=abc"}

Products ==
    {NullProduct,
     [exists |-> TRUE, id |-> "", handle |-> "choco-box", combined |-> FALSE,
      firstVariantHandle |-> "choco-box"],
     [exists |-> TRUE, id |-> "gid://1", handle |-> "choco-box", combined |-> FALSE,
      firstVariantHandle |-> "choco-box"],
     [exists |-> TRUE, id |-> "gid://2", handle |-> "choco-box", combined |-> TRUE,
      firstVariantHandle |-> "choco-dark"]}

Contents == {NoPage, EmptyPage, "page"}

NoRequest == [type |-> "none", handle |-> ""]

\* The client side is not running while a loader is followed.
ClientIdle ==
    /\ search = <<>>
    /\ pathname = "/products/choco-box"
    /\ historyLen = InitialHistoryLen
    /\ selectedVariant = [present |-> FALSE, selectedOptions |-> <<>>]
    /\ combinedListing = FALSE
    /\ effectPending = FALSE
    /\ replaced = FALSE
    /\ runs = 0
    /\ threw = FALSE

Init ==
    /\ route \in {"product", "home"}
    /\ request \in [search : Searches]
    /\ contentStub \in Contents
    /\ \/ /\ route = "product"
          /\ params \in [productHandle : HandleParams, locale : {Undefined}]
          /\ pathPrefix = Undefined
          /\ redirectToFirstVariant \in BOOLEAN
          /\ catalogStub \in [shop : {TheShop}, product : Products]
       \/ /\ route = "home"
          /\ params \in [productHandle : {UndefinedHandle}, locale : LocaleParams]
          /\ pathPrefix \in PathPrefixes
          /\ redirectToFirstVariant = FALSE
          /\ catalogStub \in [shop : {TheShop}, product : {NullProduct}]
    /\ pc = "start"
    /\ fetch = [i \in 1..2 |-> "none"]
    /\ results = [i \in 1..2 |-> Unsettled]
    /\ order = <<>>
    /\ contentReq = NoRequest
    /\ queryReq = <<>>
    /\ seo = NoSeo
    /\ recommended = "none"
    /\ outcome = NoOutcome
    /\ ClientIdle

(***************************************************************************)
(* Actions of the loaders                                                  *)
(***************************************************************************)
\* Product loader up to its await: the handle assertion, then both reads are issued.
ProductLoaderStart ==
    /\ route = "product"
    /\ pc = "start"
    /\ IF HandleMissing(params.productHandle)
       THEN /\ pc' = "done"
            /\ outcome' = [kind |-> "fatal", status |-> 0, policy |-> "",
                           location |-> <<>>, payload |-> <<>>]
            /\ UNCHANGED <<fetch, queryReq, contentReq>>
       ELSE /\ pc' = "await"
            /\ fetch' = [i \in 1..2 |-> "pending"]
            /\ queryReq' = <<params.productHandle.v, getSelectedProductOptions(request)>>
            /\ contentReq' = [type |-> "PRODUCT", handle |-> params.productHandle.v]
            /\ UNCHANGED outcome
    /\ UNCHANGED <<route, params, request, pathPrefix, redirectToFirstVariant,
                   catalogStub, contentStub, results, order, seo, recommended>>
    /\ UNCHANGED clientVars

\* Home loader up to its await: the page type, the SEO payload, then both reads.
HomeLoaderStart ==
    /\ route = "home"
    /\ pc = "start"
    /\ pc' = "await"
    /\ seo' = seoPayloadHome
    /\ fetch' = [i \in 1..2 |-> "pending"]
    /\ contentReq' = [type |-> PageType(params.locale, pathPrefix), handle |-> ""]
    /\ queryReq' = <<"SHOP_QUERY">>
    /\ UNCHANGED <<route, params, request, pathPrefix, redirectToFirstVariant,
                   catalogStub, contentStub, results, order, recommended, outcome>>
    /\ UNCHANGED clientVars

\* One of the two reads resolves; its value goes to its position in the array.
Settle(i) ==
    /\ fetch[i] = "pending"
    /\ fetch' = [fetch EXCEPT ![i] = "settled"]
    /\ results' = [results EXCEPT ![i] = Response(route, i)]
    /\ order' = Append(order, i)
    /\ UNCHANGED <<route, params, request, pathPrefix, redirectToFirstVariant,
                   catalogStub, contentStub, pc, contentReq, queryReq, seo,
                   recommended, outcome>>
    /\ UNCHANGED clientVars

ProductLoaderResumeRecommendedFirst ==
    /\ route = "product"
    /\ pc = "await"
    /\ JoinReady(fetch)
    /\ LET out == ProductAfterJoin(request, params.productHandle.v, results,
                                   redirectToFirstVariant)
       IN  /\ pc' = "done"
           /\ outcome' = out
           /\ recommended' = IF out.kind = "notfound" THEN "none" ELSE "pending"
           /\ seo' = IF out.kind = "notfound"
                     THEN NoSeo
                     ELSE seoPayloadProduct(results[1].product, request)
    /\ UNCHANGED <<route, params, request, pathPrefix, redirectToFirstVariant,
                   catalogStub, contentStub, fetch, results, order, contentReq,
                   queryReq>>
    /\ UNCHANGED clientVars

\* Product loader after its await: the not-found check, the redirects, the
\* recommended-products read, the SEO payload and the return.
ProductLoaderResume ==
    /\ route = "product"
    /\ pc = "await"
    /\ JoinReady(fetch)
    /\ LET out == ProductAfterJoin(request, params.productHandle.v, results,
                                   redirectToFirstVariant)
       IN  IF out.kind = "payload"
           THEN /\ recommended' = "pending"
                /\ seo' = out.payload.seo
                /\ IF AwaitsRecommended
                   THEN pc' = "awaitRecommended" /\ UNCHANGED outcome
                   ELSE pc' = "done" /\ outcome' = out
           ELSE /\ pc' = "done"
                /\ outcome' = out
                /\ UNCHANGED <<recommended, seo>>
    /\ UNCHANGED <<route, params, request, pathPrefix, redirectToFirstVariant,
                   catalogStub, contentStub, fetch, results, order, contentReq,
                   queryReq>>
    /\ UNCHANGED clientVars

\* Home loader after its await: the content validation and the return.
HomeLoaderResume ==
    /\ route = "home"
    /\ pc = "await"
    /\ JoinReady(fetch)
    /\ pc' = "done"
    /\ outcome' = HomeAfterJoin(results, seo)
    /\ UNCHANGED <<route, params, request, pathPrefix, redirectToFirstVariant,
                   catalogStub, contentStub, fetch, results, order, contentReq,
                   queryReq, seo, recommended>>
    /\ UNCHANGED clientVars

\* The recommended-products promise settles; a loader suspended on it resumes.
RecommendedSettle(how) ==
    /\ recommended = "pending"
    /\ recommended' = how
    /\ IF pc = "awaitRecommended"
       THEN /\ pc' = "done"
            /\ outcome' = IF how = "resolved"
                          THEN ProductAfterJoin(request, params.productHandle.v,
                                                results, redirectToFirstVariant)
                          ELSE [kind |-> "error", status |-> 0, policy |-> "",
                                location |-> <<>>, payload |-> <<>>]
       ELSE UNCHANGED <<pc, outcome>>
    /\ UNCHANGED <<route, params, request, pathPrefix, redirectToFirstVariant,
                   catalogStub, contentStub, fetch, results, order, contentReq,
                   queryReq, seo>>
    /\ UNCHANGED clientVars

Next ==
    \/ ProductLoaderStart
    \/ HomeLoaderStart
    \/ \E i \in 1..2 : Settle(i)
    \/ ProductLoaderResume
    \/ HomeLoaderResume
    \/ \E how \in {"resolved", "rejected"} : RecommendedSettle(how)

Spec == Init /\ [][Next]_vars

(***************************************************************************)
(* Properties of the loaders                                               *)
(***************************************************************************)
BothSettled == \A i \in 1..2 : fetch[i] = "settled"

\* C1: a product request whose handle is not the canonical one and whose product
\* is a combined listing, with redirectToFirstVariant = true, ends in the redirect
\* to the canonical handle (query preserved), never in the first-variant redirect.
C1_LocalizedRedirectFirst ==
    (/\ route = "product"
     /\ pc = "done"
     /\ outcome.kind # "fatal"
     /\ catalogStub.product.exists
     /\ catalogStub.product.id # ""
     /\ params.productHandle.v # catalogStub.product.handle
     /\ catalogStub.product.combined
     /\ redirectToFirstVariant)
    => /\ outcome.kind = "redirect"
       /\ outcome.policy = "localized"
       /\ outcome.location = <<catalogStub.product.handle, request.search>>
       /\ outcome.location[1] # catalogStub.product.firstVariantHandle

C1_Witness ==
    /\ route = "product"
    /\ pc = "done"
    /\ params.productHandle.v = "boite-choco"
    /\ catalogStub.product.combined
    /\ redirectToFirstVariant
    /\ request.search = "?Size=Large"
    /\ outcome.kind = "redirect"
    /\ outcome.policy = "localized"

\* What each loader returns for the stubs' answers, whatever the order they
\* arrive in.
ExpectedPayload ==
    IF route = "product"
    THEN ProductPayload(request, catalogStub.shop, catalogStub.product, contentStub)
    ELSE HomePayload(catalogStub.shop, contentStub, seoPayloadHome)

\* C5: in both loaders nothing after the await (a thrown response, a returned
\* payload, the product SEO payload, the recommended-products read) exists until
\* both reads have settled, and a returned payload is the one the two answers
\* determine, whichever settled first.
C5_JoinBeforeDownstream ==
    /\ (\/ outcome.kind \notin {"none", "fatal"}
        \/ recommended # "none"
        \/ (route = "product" /\ seo # NoSeo)
        \/ pc = "awaitRecommended") => BothSettled
    /\ outcome.kind = "payload" => outcome.payload = ExpectedPayload

C5_Witness ==
    /\ pc = "done"
    /\ outcome.kind = "payload"
    /\ order = <<2, 1>>
    /\ outcome.payload = ExpectedPayload

\* C6: once the catalog query has answered without a product identity, the
\* product loader computes no SEO payload, starts no recommended-products read,
\* and ends in the 404 response.
C6_NotFound ==
    (/\ route = "product"
     /\ fetch[1] = "settled"
     /\ (~catalogStub.product.exists \/ catalogStub.product.id = ""))
    => /\ seo = NoSeo
       /\ recommended = "none"
       /\ pc \in {"await", "done"}
       /\ pc = "done" => (outcome.kind = "notfound" /\ outcome.status = 404)

C6_Witness ==
    /\ route = "product"
    /\ pc = "done"
    /\ catalogStub.product.exists
    /\ catalogStub.product.id = ""
    /\ outcome.kind = "notfound"
    /\ seo = NoSeo
    /\ recommended = "none"

\* C7: from the moment the recommended-products read is started the product
\* loader has returned its payload, and whether that read is pending, resolved or
\* rejected the payload's shop, product, page content, seo and selectedOptions are
\* the ones the two answers determine.
C7_RecommendedDetached ==
    (route = "product" /\ recommended # "none")
    => /\ pc = "done"
       /\ outcome.kind = "payload"
       /\ outcome.payload.shop = catalogStub.shop
       /\ outcome.payload.product = catalogStub.product
       /\ outcome.payload.weaverseData = contentStub
       /\ outcome.payload.seo = seoPayloadProduct(catalogStub.product, request)
       /\ outcome.payload.selectedOptions = getSelectedProductOptions(request)

C7_Witness ==
    /\ route = "product"
    /\ pc = "done"
    /\ outcome.kind = "payload"
    /\ recommended = "pending"

\* The route's locale segment is the active locale, letter case aside.
SegmentMatchesActive ==
    toLowerCase(params.locale.v) = toLowerCase(ActiveLocale(pathPrefix))

\* C8: the home loader asks for page content of type "CUSTOM" exactly when the
\* route has a locale segment that is not the active locale, else "INDEX";
\* segment fr-custom under active locale fr gives "CUSTOM".
C8_HomePageType ==
    (route = "home" /\ pc # "start")
    => /\ contentReq.type \in {"CUSTOM", "INDEX"}
       /\ contentReq.type = "CUSTOM" <=> (Truthy(params.locale) /\ ~SegmentMatchesActive)
       /\ ~params.locale.some => contentReq.type = "INDEX"
       /\ (/\ params.locale = Some(<<"f", "r", "-", "c", "u", "s", "t", "o", "m">>)
           /\ pathPrefix = Some(<<"/", "f", "r">>)) => contentReq.type = "CUSTOM"

C8_Witness ==
    /\ route = "home"
    /\ pc = "done"
    /\ params.locale = Some(<<"f", "r", "-", "c", "u", "s", "t", "o", "m">>)
    /\ pathPrefix = Some(<<"/", "f", "r">>)
    /\ contentReq.type = "CUSTOM"

\* C9: a home response carries analytics page type "home" only when the page
\* type asked of the content loader was "INDEX".
C9_AnalyticsHomeOnlyForIndex ==
    (/\ route = "home"
     /\ outcome.kind = "payload"
     /\ outcome.payload.analytics.pageType = "home")
    => contentReq.type = "INDEX"

\* C10: the home loader decides nothing before both reads have settled, and when
\* the content loader answers with absent or empty content it ends in a failure
\* and returns no payload.
C10_HomeContentAbsent ==
    route = "home"
    => /\ outcome.kind # "none" => BothSettled
       /\ contentStub \in {NoPage, EmptyPage}
          => /\ outcome.kind \in {"none", "error"}
             /\ pc = "done" => outcome.kind = "error"

C10_Witness ==
    /\ route = "home"
    /\ pc = "done"
    /\ contentStub = NoPage
    /\ order = <<2, 1>>
    /\ outcome.kind = "error"

\* C11: every payload the product loader returns carries page content that is
\* present (not null).
C11_ProductPayloadHasContent ==
    (route = "product" /\ outcome.kind = "payload")
    => outcome.payload.weaverseData # NoPage

\* C12: when the productHandle parameter is absent or empty the product loader
\* ends in the assertion's failure (no redirect, no 404) and issues neither the
\* catalog query nor the page-content load nor the recommended-products read.
C12_MissingHandleFatal ==
    (/\ route = "product"
     /\ (~params.productHandle.some \/ params.productHandle.v = ""))
    => /\ \A i \in 1..2 : fetch[i] = "none"
       /\ queryReq = <<>>
       /\ contentReq = NoRequest
       /\ recommended = "none"
       /\ seo = NoSeo
       /\ pc \in {"start", "done"}
       /\ pc = "start" => outcome = NoOutcome
       /\ pc = "done" => (outcome.kind = "fatal" /\ outcome.status \notin {302, 404})

C12_Witness ==
    /\ route = "product"
    /\ pc = "done"
    /\ params.productHandle = [some |-> TRUE, v |-> ""]
    /\ outcome.kind = "fatal"
    /\ \A i \in 1..2 : fetch[i] = "none"

\* C14: when a redirect helper throws, the product loader has ended with the
\* redirect response: no SEO payload was computed, no recommended-products read
\* was started and no payload was returned.
C14_RedirectTerminates ==
    (route = "product" /\ outcome.kind = "redirect")
    => /\ pc = "done"
       /\ outcome.policy \in {"localized", "combined"}
       /\ seo = NoSeo
       /\ recommended = "none"
       /\ outcome.payload = <<>>

C14_Witness ==
    /\ route = "product"
    /\ pc = "done"
    /\ outcome.kind = "redirect"
    /\ outcome.policy = "combined"
    /\ outcome.location = <<"choco-dark", "?ref=abc">>
    /\ seo = NoSeo
    /\ recommended = "none"

\* C15: with redirectToFirstVariant false no product request ends in the
\* combined-listing redirect, and a combined listing requested under its
\* canonical handle ends in the payload.
C15_CombinedRedirectOnlyWhenConfigured ==
    (route = "product" /\ ~redirectToFirstVariant)
    => /\ outcome.policy # "combined"
       /\ (/\ pc = "done"
           /\ catalogStub.product.exists
           /\ catalogStub.product.id # ""
           /\ catalogStub.product.combined
           /\ params.productHandle.v = catalogStub.product.handle)
          => (outcome.kind = "payload" /\ outcome.payload.product = catalogStub.product)

C15_Witness ==
    /\ route = "product"
    /\ ~redirectToFirstVariant
    /\ pc = "done"
    /\ catalogStub.product.combined
    /\ params.productHandle.v = "choco-box"
    /\ outcome.kind = "payload"

\* C20: a product request whose catalog answer has no product identity never
\* ends in a redirect; every redirect is for a product that has an id.
C20_NotFoundBeforeRedirects ==
    route = "product"
    => /\ outcome.kind = "redirect"
          => (catalogStub.product.exists /\ catalogStub.product.id # "")
       /\ (pc = "done" /\ outcome.kind # "fatal"
           /\ (~catalogStub.product.exists \/ catalogStub.product.id = ""))
          => outcome.kind = "notfound"

C20_Witness ==
    /\ route = "product"
    /\ pc = "done"
    /\ catalogStub.product.exists
    /\ catalogStub.product.id = ""
    /\ params.productHandle.v = "boite-choco"
    /\ redirectToFirstVariant
    /\ outcome.kind = "notfound"

(***************************************************************************)
(* The product page in the browser                                         *)
(***************************************************************************)
\* The name=value segments a starting query string is made of.
RawPairs ==
    {<<"Size", "=", "Large">>,
     <<"Size", "=", "Small">>,
     <<"Flavor", "=", "Dark">>,
     <<"Flavor", "=", "Dark", "%20", "Choc">>,
     <<"ref", "=", "abc">>,
     <<"ref", "=", "a", "+", "c">>,
     <<"ref">>,
     <<"q", "=", "a", "=", "b">>,
     <<>>}

RECURSIVE Join(_)
Join(segs) ==
    IF segs = <<>> THEN <<>>
    ELSE IF Tail(segs) = <<>> THEN Head(segs)
    ELSE Head(segs) \o <<"&">> \o Join(Tail(segs))

\* location.search is "" when the URL's query is empty, else "?" and the query.
InitialSearches ==
    {SearchOf(Join(segs)) : segs \in UNION {[1..n -> RawPairs] : n \in 0..MaxParams}}

\* Query strings a navigation or a script may leave in the address bar.
NavSearches ==
    {<<>>,
     <<"?", "ref", "=", "abc">>,
     <<"?", "Size", "=", "Small">>,
     <<"?", "Size", "=", "Large", "&", "Flavor", "=", "Dark">>}

Opt(name, value) == [name |-> <<name>>, value |-> value]

NoVariant == [present |-> FALSE, selectedOptions |-> <<>>]
Variant(options) == [present |-> TRUE, selectedOptions |-> options]

Variants ==
    {NoVariant,
     Variant(<<>>),
     Variant(<<Opt("Size", <<"Large">>)>>),
     Variant(<<Opt("Size", <<"Large">>), Opt("Flavor", <<"Dark">>)>>),
     Variant(<<Opt("Size", <<"Small">>), Opt("Flavor", <<"Dark", " ", "Choc">>)>>)}

\* The loader has answered and is not followed while the page is shown.
ServerIdle ==
    /\ route = "product"
    /\ params = [productHandle |-> [some |-> TRUE, v |-> "choco-box"], locale |-> Undefined]
    /\ request = [search |-> ""]
    /\ pathPrefix = Undefined
    /\ redirectToFirstVariant = FALSE
    /\ catalogStub = [shop |-> TheShop, product |-> NullProduct]
    /\ contentStub = NoPage
    /\ pc = "done"
    /\ fetch = [i \in 1..2 |-> "none"]
    /\ results = [i \in 1..2 |-> Unsettled]
    /\ order = <<>>
    /\ contentReq = NoRequest
    /\ queryReq = <<>>
    /\ seo = NoSeo
    /\ recommended = "none"
    /\ outcome = NoOutcome

SyncInit ==
    /\ ServerIdle
    /\ search \in InitialSearches
    /\ pathname = "/products/choco-box"
    /\ historyLen = InitialHistoryLen
    /\ selectedVariant \in Variants
    /\ combinedListing \in BOOLEAN
    /\ effectPending = TRUE
    /\ replaced = FALSE
    /\ runs = 0
    /\ threw = FALSE

\* React runs the effect: after the mount, and after a render in which
\* selectedVariant?.selectedOptions or combinedListing is not the same as before.
RunEffect ==
    /\ effectPending
    /\ LET r == SyncEffect(selectedVariant, combinedListing, search)
       IN  /\ search' = r.search
           /\ replaced' = r.replace
           /\ threw' = r.threw
           /\ historyLen' = HistoryAfter(historyLen, r.replace)
           /\ pathname' = PathAfter(pathname, r.replace)
    /\ effectPending' = FALSE
    /\ runs' = IF runs < MaxRuns THEN runs + 1 ELSE runs
    /\ UNCHANGED <<selectedVariant, combinedListing>>
    /\ UNCHANGED serverVars

SelectVariantUnobserved(v) ==
    /\ v # selectedVariant
    /\ selectedVariant' = v
    /\ runs' = 0
    /\ UNCHANGED <<search, pathname, historyLen, combinedListing, replaced, threw,
                   effectPending>>
    /\ UNCHANGED serverVars

\* The shopper picks other options: useOptimisticVariant yields another variant,
\* whose selectedOptions is in the effect's dependency list.
SelectVariant(v) ==
    /\ v # selectedVariant
    /\ selectedVariant' = v
    /\ effectPending' = TRUE
    /\ runs' = 0
    /\ UNCHANGED <<search, pathname, historyLen, combinedListing, replaced, threw>>
    /\ UNCHANGED serverVars

\* The loader data is replaced by an equal copy (a revalidation): the options
\* array is a new object, so the effect is scheduled again.
Rerender ==
    /\ ~effectPending
    /\ effectPending' = TRUE
    /\ UNCHANGED <<search, pathname, historyLen, selectedVariant, combinedListing,
                   replaced, runs, threw>>
    /\ UNCHANGED serverVars

\* The query string in the address bar is changed from outside the effect.
LocationChange(s) ==
    /\ s # search
    /\ search' = s
    /\ runs' = 0
    /\ UNCHANGED <<pathname, historyLen, selectedVariant, combinedListing,
                   effectPending, replaced, threw>>
    /\ UNCHANGED serverVars

SyncNext ==
    \/ RunEffect
    \/ \E v \in Variants : SelectVariant(v)
    \/ Rerender
    \/ \E s \in NavSearches : LocationChange(s)

SyncSpec == SyncInit /\ [][SyncNext]_vars

\* A step that clears the scheduling flag; in SyncSpec these are exactly the
\* steps of RunEffect, which is enabled exactly when the flag is set.
EffectRuns == effectPending /\ effectPending' = FALSE

\* React runs an effect it has scheduled: weak fairness of RunEffect.
FairSyncSpec == SyncSpec /\ WF_effectPending(EffectRuns)

(***************************************************************************)
(* Properties of the URL synchronization                                   *)
(***************************************************************************)
\* A step in which the effect runs.
EffectStep == effectPending /\ ~effectPending'

\* C2: when the effect runs again on the URL its previous run left, with the
\* same selected variant of a product that is not a combined listing, the URL
\* stays as it is and history.replaceState is not called.
C2_SyncIdempotent ==
    [][(/\ EffectStep
        /\ runs >= 1
        /\ selectedVariant.present
        /\ ~combinedListing) => (search' = search /\ ~replaced')]_vars

C2_Witness ==
    /\ runs = 2
    /\ ~effectPending
    /\ ~combinedListing
    /\ selectedVariant = Variant(<<Opt("Size", <<"Large">>), Opt("Flavor", <<"Dark">>)>>)
    /\ search = <<"?", "Size", "=", "Large", "&", "ref", "=", "a", "+", "c", "&",
                  "Flavor", "=", "Dark">>
    /\ ~replaced

\* The names of the selected variant's options.
OptionNames(variant) ==
    {variant.selectedOptions[i].name : i \in 1..Len(variant.selectedOptions)}

\* The pairs of a query string whose name is not in names, in their order.
RECURSIVE Others(_, _)
Others(list, names) ==
    IF list = <<>> THEN <<>>
    ELSE IF Head(list).name \in names THEN Others(Tail(list), names)
    ELSE <<Head(list)>> \o Others(Tail(list), names)

\* C3: a run of the effect leaves every query parameter whose name is not an
\* option name of the selected variant in the URL with the value it had.
C3_SyncNonDestructive ==
    [][EffectStep =>
          Others(URLSearchParams(search'), OptionNames(selectedVariant))
            = Others(URLSearchParams(search), OptionNames(selectedVariant))]_vars

C3_Witness ==
    /\ runs = 1
    /\ replaced
    /\ selectedVariant = Variant(<<Opt("Size", <<"Large">>)>>)
    /\ search = <<"?", "ref", "=", "abc", "&", "Size", "=", "Large">>

\* C4: for a combined-listing product the effect never calls
\* history.replaceState and never changes the URL.
C4_CombinedListingExempt ==
    /\ [](combinedListing => ~replaced)
    /\ [][(EffectStep /\ combinedListing) => search' = search]_vars

C4_Witness ==
    /\ combinedListing
    /\ runs = 1
    /\ ~effectPending
    /\ selectedVariant = Variant(<<Opt("Size", <<"Large">>), Opt("Flavor", <<"Dark">>)>>)
    /\ search = <<"?", "Size", "=", "Small">>
    /\ ~replaced

\* Every option of the selected variant is in the URL's query with the variant's
\* value.
OptionsInUrl ==
    \A i \in 1..Len(selectedVariant.selectedOptions) :
        get(URLSearchParams(search), selectedVariant.selectedOptions[i].name)
            = [null |-> FALSE, v |-> selectedVariant.selectedOptions[i].value]

\* C13: once the effect has run for a selected variant of a product that is not
\* a combined listing, the URL's query has every option name of the variant with
\* the variant's value, whatever the query string was; from ?Size=Large with
\* variant {Size: Large, Flavor: Dark} the run leaves ?Size=Large&Flavor=Dark.
C13_SyncWritesOptions ==
    /\ []((runs >= 1 /\ selectedVariant.present /\ ~combinedListing) => OptionsInUrl)
    /\ [][(/\ EffectStep
           /\ ~combinedListing
           /\ search = <<"?", "Size", "=", "Large">>
           /\ selectedVariant
                = Variant(<<Opt("Size", <<"Large">>), Opt("Flavor", <<"Dark">>)>>))
          => search' = <<"?", "Size", "=", "Large", "&", "Flavor", "=", "Dark">>]_vars

C13_Witness ==
    /\ runs = 1
    /\ replaced
    /\ ~combinedListing
    /\ selectedVariant
         = Variant(<<Opt("Size", <<"Small">>), Opt("Flavor", <<"Dark", " ", "Choc">>)>>)
    /\ search = <<"?", "Size", "=", "Small", "&", "Flavor", "=", "Dark", "+", "Choc">>

\* C16: a run of the effect changes nothing but the query string of the current
\* history entry: the history length and the path stay as they were, and no
\* loader is started.
C16_SyncOnlyQuery ==
    [][EffectStep => /\ historyLen' = historyLen
                     /\ pathname' = pathname
                     /\ serverVars' = serverVars]_vars

C16_Witness ==
    /\ runs = 1
    /\ replaced
    /\ historyLen = InitialHistoryLen
    /\ pathname = "/products/choco-box"
    /\ pc = "done"
    /\ search = <<"?", "q", "=", "a", "%3D", "b", "&", "Size", "=", "Large">>

\* C17: the effect calls history.replaceState only with a query string that is
\* not the current one: every call changes location.search, and when the query
\* string it builds is the current one it makes no call.
C17_ReplaceOnlyWhenDifferent ==
    [][EffectStep =>
          /\ replaced' => search' # search
          /\ (/\ selectedVariant.present
              /\ toString(SetAll(URLSearchParams(search), selectedVariant.selectedOptions))
                   = slice1(search))
             => (~replaced' /\ search' = search)]_vars

C17_Witness ==
    /\ runs = 1
    /\ ~effectPending
    /\ ~combinedListing
    /\ selectedVariant = Variant(<<>>)
    /\ search = <<>>
    /\ ~replaced

\* C19: a run of the effect never throws; it calls history.replaceState or
\* leaves the URL as it is, and with no selected variant, or a variant without
\* options, it leaves the URL as it is.
C19_SyncNeverFails ==
    /\ [](~threw)
    /\ [][EffectStep =>
             /\ ~replaced' => search' = search
             /\ (~selectedVariant.present \/ selectedVariant.selectedOptions = <<>>)
                => (~replaced' /\ search' = search)]_vars

C19_Witness ==
    /\ runs = 1
    /\ ~effectPending
    /\ ~combinedListing
    /\ selectedVariant = NoVariant
    /\ search = <<"?", "ref">>
    /\ ~replaced
    /\ ~threw

\* The selected variant or the query string is changed from outside the effect.
ChangeStep ==
    \/ selectedVariant' # selectedVariant
    \/ (search' # search /\ ~EffectStep)

\* The page shows a selected variant of a product that is not a combined listing.
SyncApplies == selectedVariant.present /\ ~combinedListing

\* C18 (as claimed): unless the selected variant or the query string keeps being
\* changed for ever, the URL's query ends up carrying every option of the
\* selected variant with its value, and stays so.
C18_SyncReactsToBothInputs ==
    \/ []<><<ChangeStep>>_vars
    \/ <>[](SyncApplies => OptionsInUrl)

\* C18 (amended): a change of the selected variant schedules the effect, and a
\* scheduled effect runs and leaves the URL's query carrying every option of the
\* selected variant with its value.
C18_SyncReactsToVariant ==
    /\ [][selectedVariant' # selectedVariant => effectPending']_vars
    /\ effectPending ~> (~effectPending /\ (SyncApplies => OptionsInUrl))

C18_Witness ==
    /\ runs = 1
    /\ ~effectPending
    /\ replaced
    /\ ~combinedListing
    /\ selectedVariant = Variant(<<Opt("Size", <<"Large">>)>>)
    /\ search = <<"?", "Size", "=", "Large", "&", "Flavor", "=", "Dark">>

====
